---- MODULE Spec2Model ----
(***************************************************************************)
(* Model of src-tauri/src/lib.rs: the two scanning commands                *)
(* find_empty_values and find_invalid_numeric_values.                      *)
(*                                                                         *)
(* Text is modelled as a sequence of one-character strings, so that        *)
(* to_lowercase, contains, parse::<f64> and Value::to_string are computed. *)
(* A JSON text is either malformed or a document "as written": an object   *)
(* as written is a sequence of key/value pairs (duplicate keys allowed);   *)
(* serde_json::from_str turns it into a Map.  A SQL text is either         *)
(* unparseable or the sequence of statements Parser::parse_sql returns.    *)
(***************************************************************************)
EXTENDS Integers, Sequences, FiniteSets, TLC

\* json_str, sql_str    the arguments of the call
\* preserve_order       whether serde_json's Map keeps insertion order (its
\*                      preserve_order feature) or is the default BTreeMap
\* pc, call             "ready" before the call, "done" after; the command run
\* result               what the command returned
\* numeric_columns      the local numeric_columns of find_invalid_numeric_values
\* json_parsed          whether the call reached serde_json::from_str
VARIABLES json_str, sql_str, preserve_order, pc, call, result,
          numeric_columns, json_parsed

vars ==
  <<json_str, sql_str, preserve_order, pc, call, result,
    numeric_columns, json_parsed>>

(***************************************************************************)
(* Bounds of the input universe.                                           *)
(***************************************************************************)
MaxRecords == 3

MaxFields == 2

MaxCols == 2

MaxStmts == 2

(***************************************************************************)
(* Characters and strings.                                                 *)
(***************************************************************************)
\* The characters used by the model, in ascending byte order (the order of
\* Rust's Ord for String, which a BTreeMap-backed serde_json::Map uses).
AsciiOrder ==
  << " ", "\"", "(", ")", "+", ",", "-", ".",
     "0", "1", "2", "3", "4", "5", "6", "7", "8", "9", ":",
     "A", "B", "C", "D", "E", "F", "G", "H", "I", "J", "K", "L", "M",
     "N", "O", "P", "Q", "R", "S", "T", "U", "V", "W", "X", "Y", "Z",
     "[", "]",
     "a", "b", "c", "d", "e", "f", "g", "h", "i", "j", "k", "l", "m",
     "n", "o", "p", "q", "r", "s", "t", "u", "v", "w", "x", "y", "z",
     "{", "}" >>

\* The position of each character in that order
CodeOf ==
  [c \in {AsciiOrder[i] : i \in 1..Len(AsciiOrder)} |->
     CHOOSE i \in 1..Len(AsciiOrder) : AsciiOrder[i] = c]

CharCode(c) == CodeOf[c]

UpperChars == {AsciiOrder[i] : i \in CharCode("A")..CharCode("Z")}

DigitChars == {AsciiOrder[i] : i \in CharCode("0")..CharCode("9")}

\* char::to_lowercase on the ASCII range
LowerChar(c) ==
  IF c \in UpperChars
    THEN AsciiOrder[CharCode(c) - CharCode("A") + CharCode("a")]
    ELSE c

\* str::to_lowercase
to_lowercase(s) == [i \in 1..Len(s) |-> LowerChar(s[i])]

\* str::contains(&str)
contains(hay, needle) ==
  \E i \in 1..(Len(hay) - Len(needle) + 1) :
    SubSeq(hay, i, i + Len(needle) - 1) = needle

\* Ord for String: lexicographic by byte
RECURSIVE StrLess(_, _)
StrLess(s, t) ==
  IF t = <<>> THEN FALSE
  ELSE IF s = <<>> THEN TRUE
  ELSE IF s[1] # t[1] THEN CharCode(s[1]) < CharCode(t[1])
  ELSE StrLess(Tail(s), Tail(t))

AllDigits(s) == \A i \in 1..Len(s) : s[i] \in DigitChars

\* The decimal part of dec2flt's grammar: digits [. digits] with at
\* least one digit, then an optional exponent e|E [sign] digits+
IsDecimal(s) ==
  \E m \in 1..Len(s) :
    /\ \/ AllDigits(SubSeq(s, 1, m))
       \/ \E d \in 1..m :
            /\ s[d] = "."
            /\ m > 1
            /\ AllDigits(SubSeq(s, 1, d - 1))
            /\ AllDigits(SubSeq(s, d + 1, m))
    /\ \/ m = Len(s)
       \/ /\ m + 1 < Len(s)
          /\ s[m + 1] \in {"e", "E"}
          /\ LET x == SubSeq(s, m + 2, Len(s))
                 y == IF x[1] \in {"+", "-"} THEN Tail(x) ELSE x
             IN  y # <<>> /\ AllDigits(y)

\* As ParsesAsF64, but with the empty string read as zero
ParsesAsF64_EmptyIsZero(s) ==
  LET u == IF s # <<>> /\ s[1] \in {"+", "-"} THEN Tail(s) ELSE s
  IN  \/ s = <<>>
      \/ IsDecimal(u)
      \/ to_lowercase(u) \in { <<"i", "n", "f">>,
                               <<"i", "n", "f", "i", "n", "i", "t", "y">>,
                               <<"n", "a", "n">> }

\* <f64 as FromStr>::from_str(s).is_ok(): an optional sign, then a decimal
\* number or, ignoring case, inf, infinity or nan.  No trimming.
ParsesAsF64(s) ==
  LET u == IF s # <<>> /\ s[1] \in {"+", "-"} THEN Tail(s) ELSE s
  IN  \/ IsDecimal(u)
      \/ to_lowercase(u) \in { <<"i", "n", "f">>,
                               <<"i", "n", "f", "i", "n", "i", "t", "y">>,
                               <<"n", "a", "n">> }

(***************************************************************************)
(* JSON: documents as written, serde_json::Value, parsing and rendering.   *)
(***************************************************************************)
\* Values as written in a JSON text.  An object as written is the sequence
\* of its key/value pairs, in text order, keys possibly repeated.
WNull == [t |-> "null"]

WBool(b) == [t |-> "bool", b |-> b]

WNum(n) == [t |-> "number", n |-> n]

WStr(s) == [t |-> "string", s |-> s]

WArr(items) == [t |-> "array", items |-> items]

WObj(fields) == [t |-> "object", fields |-> fields]

Pair(k, v) == [key |-> k, value |-> v]

\* Keys of the pairs, first occurrences only, in text order: the iteration
\* order of an IndexMap-backed Map (feature preserve_order), where a
\* repeated key keeps its first position.
RECURSIVE InsertionOrder(_)
InsertionOrder(fields) ==
  IF fields = <<>> THEN <<>>
  ELSE LET init == InsertionOrder(SubSeq(fields, 1, Len(fields) - 1))
           k    == fields[Len(fields)].key
       IN  IF \E i \in 1..Len(init) : init[i] = k THEN init
           ELSE Append(init, k)

\* A set of strings as the ascending sequence: the iteration order of a
\* BTreeMap-backed Map (the default).
RECURSIVE SortedOrder(_)
SortedOrder(ks) ==
  IF ks = {} THEN <<>>
  ELSE LET least == CHOOSE k \in ks : \A o \in ks \ {k} : StrLess(k, o)
       IN  <<least>> \o SortedOrder(ks \ {least})

\* Map::iter(): the keys in the order the map yields them
MapIterOrder(fields, po) ==
  IF po THEN InsertionOrder(fields)
  ELSE SortedOrder({fields[i].key : i \in 1..Len(fields)})

\* The pair that decides the value of key k: Map::insert replaces the value
\* of a key already present, so the last pair written wins.
LastPair(fields, k) ==
  fields[CHOOSE i \in 1..Len(fields) :
           /\ fields[i].key = k
           /\ \A j \in (i + 1)..Len(fields) : fields[j].key # k]

\* serde_json::from_str on a well-formed text: the Value of a written value.
\* An object becomes a Map: its keys in iteration order and the value of
\* each key.
RECURSIVE FromWritten(_, _)
FromWritten(w, po) ==
  CASE w.t = "array" ->
         [t |-> "array",
          items |-> [i \in 1..Len(w.items) |-> FromWritten(w.items[i], po)]]
    [] w.t = "object" ->
         LET order == MapIterOrder(w.fields, po)
         IN  [t |-> "object",
              keys |-> order,
              map |-> [k \in {order[i] : i \in 1..Len(order)} |->
                         FromWritten(LastPair(w.fields, k).value, po)]]
    [] OTHER -> w

\* The decimal digits of a natural number
RECURSIVE Digits(_)
Digits(n) ==
  IF n < 10 THEN <<AsciiOrder[CharCode("0") + n]>>
  ELSE Digits(n \div 10) \o <<AsciiOrder[CharCode("0") + (n % 10)]>>

\* Value::to_string(): the compact JSON rendering.  The strings of the
\* model hold no character that JSON escapes.
RECURSIVE to_string(_)
RECURSIVE JoinItems(_)
RECURSIVE JoinEntries(_, _)
to_string(v) ==
  CASE v.t = "null" -> <<"n", "u", "l", "l">>
    [] v.t = "bool" ->
         IF v.b THEN <<"t", "r", "u", "e">> ELSE <<"f", "a", "l", "s", "e">>
    [] v.t = "number" -> Digits(v.n)
    [] v.t = "string" -> <<"\"">> \o v.s \o <<"\"">>
    [] v.t = "array" -> <<"[">> \o JoinItems(v.items) \o <<"]">>
    [] v.t = "object" -> <<"{">> \o JoinEntries(v.keys, v.map) \o <<"}">>

JoinItems(items) ==
  IF items = <<>> THEN <<>>
  ELSE to_string(items[1])
         \o (IF Len(items) > 1 THEN <<",">> ELSE <<>>)
         \o JoinItems(Tail(items))

JoinEntries(keys, map) ==
  IF keys = <<>> THEN <<>>
  ELSE <<"\"">> \o keys[1] \o <<"\"", ":">> \o to_string(map[keys[1]])
         \o (IF Len(keys) > 1 THEN <<",">> ELSE <<>>)
         \o JoinEntries(Tail(keys), map)

\* Value::is_null, is_string, is_number, as_str, as_array, as_object
is_null(v) == v.t = "null"

is_string(v) == v.t = "string"

is_number(v) == v.t = "number"

is_array(v) == v.t = "array"

is_object(v) == v.t = "object"

\* A JSON text: malformed, or a document as written
Malformed == [wf |-> FALSE, doc |-> WNull]

Text(w) == [wf |-> TRUE, doc |-> w]

\* As from_str, but with a malformed text read as null
from_str_Lenient(text, po) ==
  IF text.wf THEN [ok |-> TRUE, v |-> FromWritten(text.doc, po)]
  ELSE [ok |-> TRUE, v |-> WNull]

\* serde_json::from_str(&json_str)
from_str(text, po) ==
  IF text.wf THEN [ok |-> TRUE, v |-> FromWritten(text.doc, po)]
  ELSE [ok |-> FALSE, v |-> WNull]

(***************************************************************************)
(* SQL: the statements Parser::parse_sql returns.                          *)
(***************************************************************************)
\* sqlparser::ast::DataType, as the type's name and its numeric arguments
DataType(name, args) == [name |-> name, args |-> args]

\* <DataType as Display>: INT, VARCHAR(10), DECIMAL(10,2), DOUBLE PRECISION
RECURSIVE JoinNumbers(_)
JoinNumbers(ns) ==
  IF ns = <<>> THEN <<>>
  ELSE Digits(ns[1])
         \o (IF Len(ns) > 1 THEN <<",">> ELSE <<>>)
         \o JoinNumbers(Tail(ns))

data_type_to_string(ty) ==
  IF ty.args = <<>> THEN ty.name
  ELSE ty.name \o <<"(">> \o JoinNumbers(ty.args) \o <<")">>

\* sqlparser::ast::ColumnDef
ColumnDef(name, ty) == [name |-> name, data_type |-> ty]

\* sqlparser::ast::Statement
CreateTable(columns) == [kind |-> "CreateTable", columns |-> columns]

Query == [kind |-> "Query", columns |-> <<>>]

\* A statement the parser rejects
Garbage == [kind |-> "Garbage", columns |-> <<>>]

\* Parser::parse_sql(&dialect, &sql_str): a SQL text is the sequence of its
\* statements as written; the parser fails when any of them is rejected,
\* and otherwise returns them all.
parse_sql(text) ==
  IF \E i \in 1..Len(text) : text[i].kind = "Garbage"
    THEN [ok |-> FALSE, stmts |-> <<>>]
    ELSE [ok |-> TRUE, stmts |-> text]

(***************************************************************************)
(* Results.                                                                *)
(***************************************************************************)
\* Ok(OperationResult { data, .. }); duration_ms is not modelled
Ok(data) == [ok |-> TRUE, err |-> "none", data |-> data]

\* Err(CommandError::Json(..)), Err(CommandError::Sql(..))
Err(kind) == [ok |-> FALSE, err |-> kind, data |-> <<>>]

NoResult == [ok |-> FALSE, err |-> "pending", data |-> <<>>]

EmptyValueResult(i, k) == [index |-> i, key |-> k]

InvalidNumericResult(i, k, val) == [index |-> i, key |-> k, value |-> val]

\* The pushes of a loop, in order: the concatenation of what each
\* iteration pushes
RECURSIVE Flatten(_)
Flatten(ss) == IF ss = <<>> THEN <<>> ELSE ss[1] \o Flatten(Tail(ss))

(***************************************************************************)
(* find_empty_values                                                       *)
(***************************************************************************)
\* As IsEmptyValue, but with the string trimmed first
IsEmptyValue_Trimmed(value) ==
  \/ is_null(value)
  \/ is_string(value) /\ \A n \in 1..Len(value.s) : value.s[n] = " "

\* value.is_null() || (value.is_string() && value.as_str().unwrap().is_empty())
IsEmptyValue(value) ==
  is_null(value) \/ (is_string(value) /\ value.s = <<>>)

\* As EmptyInRecord, but iterating the fields from the last to the first
EmptyInRecord_Reversed(i, obj) ==
  Flatten([j \in 1..Len(obj.keys) |->
             IF IsEmptyValue(obj.map[obj.keys[Len(obj.keys) + 1 - j]])
               THEN <<EmptyValueResult(i, obj.keys[Len(obj.keys) + 1 - j])>>
               ELSE <<>>])

\* for (key, value) in map.iter() { if .. { empty_results.push(..) } }
EmptyInRecord(i, obj) ==
  Flatten([j \in 1..Len(obj.keys) |->
             IF IsEmptyValue(obj.map[obj.keys[j]])
               THEN <<EmptyValueResult(i, obj.keys[j])>>
               ELSE <<>>])

\* As ScanEmpty, but numbering the object elements only
ScanEmpty_CountObjects(v) ==
  IF is_array(v)
    THEN LET objs == SelectSeq(v.items, is_object)
         IN  Flatten([i \in 1..Len(objs) |-> EmptyInRecord(i - 1, objs[i])])
    ELSE <<>>

\* if let Some(arr) = v.as_array() { for (i, obj) in arr.iter().enumerate()
\*   { if let Some(map) = obj.as_object() { .. } } }
ScanEmpty(v) ==
  IF is_array(v)
    THEN Flatten([i \in 1..Len(v.items) |->
                    IF is_object(v.items[i])
                      THEN EmptyInRecord(i - 1, v.items[i])
                      ELSE <<>>])
    ELSE <<>>

find_empty_values(text, po) ==
  LET parsed == from_str(text, po)
  IN  IF ~parsed.ok
        THEN [result |-> Err("Json"), numeric_columns |-> {},
              reached_json |-> TRUE]
        ELSE [result |-> Ok(ScanEmpty(parsed.v)), numeric_columns |-> {},
              reached_json |-> TRUE]

(***************************************************************************)
(* find_invalid_numeric_values                                             *)
(***************************************************************************)
\* As DataTypeStr, but without to_lowercase
DataTypeStr_AsDeclared(col) == data_type_to_string(col.data_type)

\* let data_type_str = col.data_type.to_string().to_lowercase();
DataTypeStr(col) == to_lowercase(data_type_to_string(col.data_type))

\* data_type_str.contains("int") || .. || data_type_str.contains("double")
IsNumericType(data_type_str) ==
  \/ contains(data_type_str, <<"i", "n", "t">>)
  \/ contains(data_type_str, <<"n", "u", "m", "e", "r", "i", "c">>)
  \/ contains(data_type_str, <<"d", "e", "c", "i", "m", "a", "l">>)
  \/ contains(data_type_str, <<"f", "l", "o", "a", "t">>)
  \/ contains(data_type_str, <<"d", "o", "u", "b", "l", "e">>)

\* As NumericColumns, but a later declaration that is not numeric removes
\* the name
RECURSIVE NumericColumns_LastWins(_)
NumericColumns_LastWins(columns) ==
  IF columns = <<>> THEN {}
  ELSE LET before == NumericColumns_LastWins(SubSeq(columns, 1, Len(columns) - 1))
           col    == columns[Len(columns)]
       IN  IF IsNumericType(DataTypeStr(col))
             THEN before \cup {col.name}
             ELSE before \ {col.name}

\* for col in columns { if .. { numeric_columns.insert(col.name.value.clone()) } }
RECURSIVE NumericColumns(_)
NumericColumns(columns) ==
  IF columns = <<>> THEN {}
  ELSE LET before == NumericColumns(SubSeq(columns, 1, Len(columns) - 1))
           col    == columns[Len(columns)]
       IN  IF IsNumericType(DataTypeStr(col))
             THEN before \cup {col.name}
             ELSE before

\* As ExtractColumns, but on the last statement
ExtractColumns_LastStatement(ast) ==
  IF Len(ast) > 0 /\ ast[Len(ast)].kind = "CreateTable"
    THEN [ok |-> TRUE, numeric_columns |-> NumericColumns(ast[Len(ast)].columns)]
    ELSE [ok |-> FALSE, numeric_columns |-> {}]

\* if let Some(Statement::CreateTable(..)) = ast.get(0) { .. } else { Err }
ExtractColumns(ast) ==
  IF Len(ast) > 0 /\ ast[1].kind = "CreateTable"
    THEN [ok |-> TRUE, numeric_columns |-> NumericColumns(ast[1].columns)]
    ELSE [ok |-> FALSE, numeric_columns |-> {}]

\* As InvalidNumeric, but pushing value.to_string() for a string too
InvalidNumeric_Rendered(i, key, value) ==
  IF is_number(value) THEN <<>>
  ELSE IF is_string(value) /\ ParsesAsF64(value.s) THEN <<>>
  ELSE <<InvalidNumericResult(i, key, to_string(value))>>

\* if !value.is_number() { if let Some(s) = value.as_str() { if
\*   s.parse::<f64>().is_err() { push(s) } } else { push(value.to_string()) } }
InvalidNumeric(i, key, value) ==
  IF is_number(value) THEN <<>>
  ELSE IF is_string(value)
    THEN IF ParsesAsF64(value.s) THEN <<>>
         ELSE <<InvalidNumericResult(i, key, value.s)>>
    ELSE <<InvalidNumericResult(i, key, to_string(value))>>

\* for (key, value) in map.iter() { if numeric_columns.contains(key) { .. } }
InvalidInRecord(i, obj, numeric) ==
  Flatten([j \in 1..Len(obj.keys) |->
             IF obj.keys[j] \in numeric
               THEN InvalidNumeric(i, obj.keys[j], obj.map[obj.keys[j]])
               ELSE <<>>])

ScanNumeric(v, numeric) ==
  IF is_array(v)
    THEN Flatten([i \in 1..Len(v.items) |->
                    IF is_object(v.items[i])
                      THEN InvalidInRecord(i - 1, v.items[i], numeric)
                      ELSE <<>>])
    ELSE <<>>

\* As find_invalid_numeric_values, but parsing the JSON before the DDL
find_invalid_numeric_values_JsonFirst(text, sql, po) ==
  LET parsed == from_str(text, po)
      ast    == parse_sql(sql)
      cols   == ExtractColumns(ast.stmts)
  IN  IF ~parsed.ok
        THEN [result |-> Err("Json"), numeric_columns |-> {},
              reached_json |-> TRUE]
        ELSE IF ~ast.ok \/ ~cols.ok
          THEN [result |-> Err("Sql"), numeric_columns |-> {},
                reached_json |-> TRUE]
          ELSE [result |-> Ok(ScanNumeric(parsed.v, cols.numeric_columns)),
                numeric_columns |-> cols.numeric_columns,
                reached_json |-> TRUE]

\* let ast = Parser::parse_sql(..)?; .. else { return Err(Sql) } ..
\* let v: Value = serde_json::from_str(&json_str)?; .. Ok(..)
find_invalid_numeric_values(text, sql, po) ==
  LET ast == parse_sql(sql)
  IN  IF ~ast.ok
        THEN [result |-> Err("Sql"), numeric_columns |-> {},
              reached_json |-> FALSE]
        ELSE LET cols == ExtractColumns(ast.stmts)
             IN  IF ~cols.ok
                   THEN [result |-> Err("Sql"), numeric_columns |-> {},
                         reached_json |-> FALSE]
                   ELSE LET parsed == from_str(text, po)
                        IN  IF ~parsed.ok
                              THEN [result |-> Err("Json"),
                                    numeric_columns |-> cols.numeric_columns,
                                    reached_json |-> TRUE]
                              ELSE [result |->
                                      Ok(ScanNumeric(parsed.v,
                                                     cols.numeric_columns)),
                                    numeric_columns |-> cols.numeric_columns,
                                    reached_json |-> TRUE]

(***************************************************************************)
(* The inputs of a call.                                                   *)
(***************************************************************************)
SeqsUpTo(S, n) == UNION {[1..k -> S] : k \in 0..n}

KeyLower == <<"a">>

KeyUpper == <<"A">>

Keys == {KeyLower, KeyUpper}

\* Field values: one of each JSON type, and strings that are empty,
\* blank, a float and not a float
ShortVals == {WNull, WNum(5), WStr(<<>>), WStr(<<"1", "e">>)}

Vals ==
  ShortVals \cup
    {WBool(TRUE), WStr(<<" ">>), WStr(<<"1", ".", "5">>),
     WArr(<<WNum(1), WNum(2)>>), WObj(<<Pair(<<"k">>, WNum(1))>>)}

\* One record of up to MaxFields fields
WideArrays ==
  {WArr(<<WObj(f)>>) :
     f \in SeqsUpTo({Pair(k, v) : k \in Keys, v \in Vals}, MaxFields)}

\* Up to MaxRecords elements: non-objects and records of at most one field
LongArrays ==
  {WArr(e) :
     e \in SeqsUpTo({WNull, WNum(7), WObj(<<>>)}
                      \cup {WObj(<<Pair(k, v)>>) : k \in Keys, v \in ShortVals},
                    MaxRecords)}

NonArrays == {WNull, WNum(5), WStr(<<>>), WObj(<<Pair(KeyLower, WNull)>>)}

\* Records of two fields among other elements
MixedArrays ==
  { WArr(<<WObj(<<Pair(KeyLower, WNull), Pair(KeyUpper, WStr(<<>>))>>),
           WObj(<<Pair(KeyUpper, WNull), Pair(KeyLower, WStr(<<>>))>>)>>),
    WArr(<<WObj(<<Pair(KeyLower, WStr(<<"1", "e">>)),
                  Pair(KeyUpper, WBool(TRUE))>>),
           WNum(7),
           WObj(<<Pair(KeyUpper, WArr(<<WNum(1), WNum(2)>>)),
                  Pair(KeyLower, WStr(<<"1", ".", "5">>))>>)>>) }

RichJson ==
  {Malformed}
    \cup {Text(w) : w \in WideArrays \cup LongArrays \cup MixedArrays
                             \cup NonArrays}

FewJson ==
  { Malformed,
    Text(WObj(<<Pair(KeyLower, WNull)>>)),
    Text(WArr(<<WObj(<<Pair(KeyLower, WStr(<<"1", "e">>)),
                       Pair(KeyUpper, WNull)>>)>>)),
    Text(WArr(<<WObj(<<Pair(KeyUpper, WStr(<<"x">>)),
                       Pair(KeyLower, WStr(<<"-", "i", "n", "f">>))>>)>>)),
    Text(WArr(<<WObj(<<Pair(KeyLower, WStr(<<>>)),
                       Pair(KeyUpper, WArr(<<WNum(1), WNum(2)>>))>>)>>)),
    Text(WArr(<<WObj(<<Pair(KeyLower, WBool(TRUE))>>),
                WNum(7),
                WObj(<<Pair(KeyUpper, WStr(<<" ">>))>>)>>)) }

TyInt == DataType(<<"I", "N", "T">>, <<>>)

TyVarchar == DataType(<<"V", "A", "R", "C", "H", "A", "R">>, <<10>>)

TyDecimal == DataType(<<"D", "E", "C", "I", "M", "A", "L">>, <<10, 2>>)

TyNumeric == DataType(<<"N", "U", "M", "E", "R", "I", "C">>, <<>>)

TyFloat == DataType(<<"F", "L", "O", "A", "T">>, <<>>)

TyDouble ==
  DataType(<<"D", "O", "U", "B", "L", "E", " ",
             "P", "R", "E", "C", "I", "S", "I", "O", "N">>, <<>>)

\* A user-defined type, rendered as written
TyPoint == DataType(<<"P", "o", "i", "n", "t">>, <<>>)

Types == {TyInt, TyVarchar, TyDecimal, TyNumeric, TyFloat, TyDouble, TyPoint}

\* One CREATE TABLE of up to MaxCols columns
Tables ==
  {<<CreateTable(c)>> :
     c \in SeqsUpTo({ColumnDef(n, ty) : n \in Keys, ty \in Types}, MaxCols)}

\* Up to MaxStmts statements
Scripts ==
  SeqsUpTo({Query, Garbage,
            CreateTable(<<ColumnDef(KeyLower, TyInt)>>),
            CreateTable(<<ColumnDef(KeyLower, TyVarchar)>>)}, MaxStmts)

RichSql == Tables \cup Scripts

FewSql ==
  { <<CreateTable(<<ColumnDef(KeyLower, TyInt),
                    ColumnDef(KeyUpper, TyVarchar)>>)>>,
    <<CreateTable(<<ColumnDef(KeyLower, TyFloat),
                    ColumnDef(KeyUpper, TyNumeric)>>)>> }

Inputs == (RichJson \X FewSql) \cup (FewJson \X RichSql)

(***************************************************************************)
(* The state machine: one call on the inputs.                              *)
(***************************************************************************)
Init ==
  /\ \E in \in Inputs : json_str = in[1] /\ sql_str = in[2]
  /\ preserve_order \in BOOLEAN
  /\ pc = "ready"
  /\ call = "none"
  /\ result = NoResult
  /\ numeric_columns = {}
  /\ json_parsed = FALSE

FindEmptyValues ==
  /\ pc = "ready"
  /\ LET r == find_empty_values(json_str, preserve_order)
     IN  /\ result' = r.result
         /\ numeric_columns' = r.numeric_columns
         /\ json_parsed' = r.reached_json
  /\ call' = "find_empty_values"
  /\ pc' = "done"
  /\ UNCHANGED <<json_str, sql_str, preserve_order>>

FindInvalidNumericValues ==
  /\ pc = "ready"
  /\ LET r == find_invalid_numeric_values(json_str, sql_str, preserve_order)
     IN  /\ result' = r.result
         /\ numeric_columns' = r.numeric_columns
         /\ json_parsed' = r.reached_json
  /\ call' = "find_invalid_numeric_values"
  /\ pc' = "done"
  /\ UNCHANGED <<json_str, sql_str, preserve_order>>

Next == FindEmptyValues \/ FindInvalidNumericValues

Spec == Init /\ [][Next]_vars

(***************************************************************************)
(* Vocabulary of the properties.  What a scan should report is stated      *)
(* from the input as written and from explicit tables for the values and   *)
(* types of the input universe, not from the operators of the scans.       *)
(***************************************************************************)
DoneEmpty == pc = "done" /\ call = "find_empty_values"

DoneNumeric == pc = "done" /\ call = "find_invalid_numeric_values"

\* The DDL parses and its first statement is a CREATE TABLE
ValidDdl ==
  /\ \A i \in 1..Len(sql_str) : sql_str[i].kind # "Garbage"
  /\ Len(sql_str) > 0
  /\ sql_str[1].kind = "CreateTable"

\* The JSON text is a well-formed array
IsJsonArray == json_str.wf /\ json_str.doc.t = "array"

Elements == json_str.doc.items

\* The positions (from 1) of the object elements of the array
ObjectPositions ==
  {i \in 1..Len(Elements) : Elements[i].t = "object"}

KeysAt(i) == {Elements[i].fields[j].key : j \in 1..Len(Elements[i].fields)}

\* A[i][k] as written: the value of the last pair of key k
ValueAt(i, k) ==
  LET f == Elements[i].fields
      last == CHOOSE j \in 1..Len(f) :
                f[j].key = k /\ \A m \in (j + 1)..Len(f) : f[m].key # k
  IN  f[last].value

\* The position (from 1) at which key k is first written in record i
FirstWrittenAt(i, k) ==
  LET f == Elements[i].fields
  IN  CHOOSE j \in 1..Len(f) :
        f[j].key = k /\ \A m \in 1..(j - 1) : f[m].key # k

\* The strings of the input universe that Rust parses as an f64
FloatStrings == {<<"1", ".", "5">>, <<"-", "i", "n", "f">>}

\* The JSON text of the non-string values of the input universe
TextOf(w) ==
  CASE w = WNull -> <<"n", "u", "l", "l">>
    [] w = WBool(TRUE) -> <<"t", "r", "u", "e">>
    [] w = WArr(<<WNum(1), WNum(2)>>) -> <<"[", "1", ",", "2", "]">>
    [] w = WObj(<<Pair(<<"k">>, WNum(1))>>) ->
         <<"{", "\"", "k", "\"", ":", "1", "}">>

\* The types of the input universe whose lower-cased name contains int,
\* numeric, decimal, float or double (Point contains int)
NumericLikeTypes == {TyInt, TyDecimal, TyNumeric, TyFloat, TyDouble, TyPoint}

\* The names some declaration of which has a numeric-like type
NumericLikeNames(columns) ==
  {columns[i].name :
     i \in {j \in 1..Len(columns) : columns[j].data_type \in NumericLikeTypes}}

\* The findings of a list, as a set
Findings == {result.data[n] : n \in 1..Len(result.data)}

\* The empty findings a scan of the array should report
ExpectedEmpty ==
  {EmptyValueResult(i - 1, k) :
     <<i, k>> \in {p \in ObjectPositions \X Keys :
                     /\ p[2] \in KeysAt(p[1])
                     /\ ValueAt(p[1], p[2]) \in {WNull, WStr(<<>>)}}}

\* The value an invalid-numeric finding carries for a written value
ExpectedValue(w) == IF w.t = "string" THEN w.s ELSE TextOf(w)

\* The invalid-numeric findings a scan of the array should report when the
\* numeric columns are N
ExpectedInvalid(N) ==
  {InvalidNumericResult(i - 1, k, ExpectedValue(ValueAt(i, k))) :
     <<i, k>> \in {p \in ObjectPositions \X Keys :
                     /\ p[2] \in KeysAt(p[1])
                     /\ p[2] \in N
                     /\ ValueAt(p[1], p[2]).t # "number"
                     /\ ~(/\ ValueAt(p[1], p[2]).t = "string"
                          /\ ValueAt(p[1], p[2]).s \in FloatStrings)}}

\* Some element of the array is not an object
HasNonObject == ObjectPositions # 1..Len(Elements)

\* The columns of the first statement
FirstColumns == sql_str[1].columns

\* The column names declared more than once
RepeatedNames ==
  {FirstColumns[i].name :
     i \in {j \in 1..Len(FirstColumns) :
              \E m \in 1..Len(FirstColumns) :
                m # j /\ FirstColumns[m].name = FirstColumns[j].name}}

\* The type of the last declaration of column name k
LastDeclaredType(k) ==
  FirstColumns[CHOOSE j \in 1..Len(FirstColumns) :
                 /\ FirstColumns[j].name = k
                 /\ \A m \in (j + 1)..Len(FirstColumns) :
                      FirstColumns[m].name # k].data_type

DocBlankBesideNull ==
  WArr(<<WObj(<<Pair(KeyLower, WNull), Pair(KeyUpper, WStr(<<" ">>))>>)>>)

DocTwoByTwo ==
  WArr(<<WObj(<<Pair(KeyLower, WNull), Pair(KeyUpper, WStr(<<>>))>>),
         WObj(<<Pair(KeyUpper, WNull), Pair(KeyLower, WStr(<<>>))>>)>>)

DocAroundNumber ==
  WArr(<<WObj(<<Pair(KeyLower, WNull)>>),
         WNum(7),
         WObj(<<Pair(KeyUpper, WStr(<<>>))>>)>>)

DocCaseKeys ==
  WArr(<<WObj(<<Pair(KeyLower, WStr(<<"1", "e">>)), Pair(KeyUpper, WNull)>>)>>)

(***************************************************************************)
(* Properties.                                                             *)
(***************************************************************************)
\* C1: on a JSON array, find_empty_values succeeds and reports {index, key}
\* exactly for the fields of object elements whose value is null or the
\* zero-length string, each once; a blank string, a number, a boolean, an
\* array or an object is never reported.
C1_EmptyFindingsExact ==
  DoneEmpty /\ IsJsonArray =>
    /\ result.ok
    /\ Findings = ExpectedEmpty
    /\ Len(result.data) = Cardinality(ExpectedEmpty)

\* A record {"a": null, "A": " "} was scanned: only a is reported.
C1_Witness ==
  /\ DoneEmpty
  /\ json_str = Text(DocBlankBesideNull)
  /\ result = Ok(<<EmptyValueResult(0, KeyLower)>>)

\* C2: with a valid DDL and a JSON array, find_invalid_numeric_values
\* reports only fields whose key is a numeric column, and for such a field
\* nothing when the value is a number or a string that parses as a float,
\* and otherwise exactly one finding whose value is the string itself or
\* the JSON text of a null, boolean, array or object.
C2_InvalidNumericExact ==
  DoneNumeric /\ ValidDdl /\ IsJsonArray =>
    /\ result.ok
    /\ Findings = ExpectedInvalid(numeric_columns)
    /\ Len(result.data) = Cardinality(ExpectedInvalid(numeric_columns))

\* Both keys numeric; "1e", true and [1,2] are reported, "1.5" is not.
C2_Witness ==
  /\ DoneNumeric
  /\ result.ok
  /\ numeric_columns = Keys
  /\ Len(result.data) = 3
  /\ InvalidNumericResult(0, KeyLower, <<"1", "e">>) \in Findings
  /\ InvalidNumericResult(0, KeyUpper, <<"t", "r", "u", "e">>) \in Findings
  /\ InvalidNumericResult(2, KeyUpper, <<"[", "1", ",", "2", "]">>) \in Findings

\* C3: when the DDL does not parse or its first statement is not a CREATE
\* TABLE, find_invalid_numeric_values fails with the SQL error and never
\* reaches the parsing of the JSON, also when the JSON is malformed too.
C3_SqlErrorBeforeJson ==
  DoneNumeric /\ ~ValidDdl => result = Err("Sql") /\ ~json_parsed

\* Both texts invalid: the SQL error is the one reported.
C3_Witness ==
  /\ DoneNumeric
  /\ ~ValidDdl
  /\ ~json_str.wf
  /\ result = Err("Sql")
  /\ ~json_parsed

\* C4 as stated: malformed JSON makes both scanners fail with the JSON
\* error.
C4_MalformedJsonIsJsonError ==
  (DoneEmpty \/ DoneNumeric) /\ ~json_str.wf => result = Err("Json")

\* C4 as amended: malformed JSON makes find_empty_values fail with the JSON
\* error, and find_invalid_numeric_values fail with the JSON error when the
\* DDL is valid and with the SQL error otherwise; no finding list is
\* returned in any of these cases.
C4_MalformedJsonFails ==
  /\ DoneEmpty /\ ~json_str.wf => result = Err("Json")
  /\ DoneNumeric /\ ~json_str.wf =>
       result = IF ValidDdl THEN Err("Json") ELSE Err("Sql")

\* Malformed JSON with a valid DDL: the numeric scan fails with the JSON
\* error.
C4_Witness ==
  /\ DoneNumeric
  /\ ~json_str.wf
  /\ ValidDdl
  /\ result = Err("Json")
  /\ json_parsed

\* C5 as stated: a DDL of more than one statement is rejected.
C5_MultipleStatementsRejected ==
  DoneNumeric /\ parse_sql(sql_str).ok /\ Len(sql_str) > 1 => ~result.ok

\* C5 as amended: the numeric column set is derived from exactly one
\* statement, the first; a DDL of several statements that all parse and
\* whose first is a CREATE TABLE is accepted, and the JSON is scanned
\* against the columns of the first statement alone.
C5_FirstStatementOnly ==
  DoneNumeric /\ ValidDdl /\ Len(sql_str) > 1 /\ json_str.wf =>
    /\ result.ok
    /\ numeric_columns = NumericLikeNames(FirstColumns)
    /\ IsJsonArray => Findings = ExpectedInvalid(NumericLikeNames(FirstColumns))

\* CREATE TABLE (a INT); CREATE TABLE (a VARCHAR(10)): a is scanned.
C5_Witness ==
  /\ DoneNumeric
  /\ sql_str = <<CreateTable(<<ColumnDef(KeyLower, TyInt)>>),
                 CreateTable(<<ColumnDef(KeyLower, TyVarchar)>>)>>
  /\ json_str = Text(DocCaseKeys)
  /\ result = Ok(<<InvalidNumericResult(0, KeyLower, <<"1", "e">>)>>)

\* C6 as stated: of several declarations of one column name the last wins.
C6_LastDeclarationWins ==
  DoneNumeric /\ ValidDdl =>
    \A k \in RepeatedNames :
      /\ k \in numeric_columns <=> LastDeclaredType(k) \in NumericLikeTypes
      /\ LastDeclaredType(k) \notin NumericLikeTypes =>
           \A f \in Findings : f.key # k

\* C6 as amended: a column name declared more than once is in the numeric
\* column set if and only if at least one of its declarations has a
\* numeric-like type, so a column declared INT and later VARCHAR is scanned
\* as numeric.
C6_AnyDeclarationWins ==
  DoneNumeric /\ ValidDdl /\ RepeatedNames # {} =>
    /\ \A k \in RepeatedNames :
         k \in numeric_columns <=> k \in NumericLikeNames(FirstColumns)
    /\ IsJsonArray =>
         \A f \in ExpectedInvalid(RepeatedNames \cap
                                    NumericLikeNames(FirstColumns)) :
           f \in Findings

\* CREATE TABLE (a INT, a VARCHAR(10)): a is scanned as numeric.
C6_Witness ==
  /\ DoneNumeric
  /\ sql_str = <<CreateTable(<<ColumnDef(KeyLower, TyInt),
                               ColumnDef(KeyLower, TyVarchar)>>)>>
  /\ json_str = Text(DocCaseKeys)
  /\ numeric_columns = {KeyLower}
  /\ result = Ok(<<InvalidNumericResult(0, KeyLower, <<"1", "e">>)>>)

C8_NumericTypeRule ==
  DoneNumeric /\ ValidDdl =>
    /\ numeric_columns = NumericLikeNames(FirstColumns)
    /\ \A f \in Findings : f.key \in NumericLikeNames(FirstColumns)

\* CREATE TABLE (A Point) and a record with an invalid a and a null A: only A
\* is reported.
C8_Witness ==
  /\ DoneNumeric
  /\ sql_str = <<CreateTable(<<ColumnDef(KeyUpper, TyPoint)>>)>>
  /\ json_str = Text(DocCaseKeys)
  /\ numeric_columns = {KeyUpper}
  /\ result = Ok(<<InvalidNumericResult(0, KeyUpper, <<"n", "u", "l", "l">>)>>)

\* C9: valid JSON that is not an array makes both scanners succeed with no
\* finding; in an array with non-object elements these contribute nothing
\* and every object element is scanned in full under its own position.
C9_ShapeTolerated ==
  (DoneEmpty \/ (DoneNumeric /\ ValidDdl)) /\ json_str.wf =>
    /\ ~IsJsonArray => result = Ok(<<>>)
    /\ IsJsonArray /\ HasNonObject =>
         /\ result.ok
         /\ \A f \in Findings : f.index + 1 \in ObjectPositions
         /\ Findings = IF DoneEmpty THEN ExpectedEmpty
                       ELSE ExpectedInvalid(numeric_columns)

\* [{"a": null}, 7, {"A": ""}]: findings at positions 0 and 2.
C9_Witness ==
  /\ DoneEmpty
  /\ json_str = Text(DocAroundNumber)
  /\ result = Ok(<<EmptyValueResult(0, KeyLower), EmptyValueResult(2, KeyUpper)>>)

\* C10: every finding of find_empty_values on the same JSON whose key is a
\* numeric column is also reported by find_invalid_numeric_values, with the
\* same index and key, and with value null for a null and the empty string
\* for an empty string.
C10_EmptyIsAlsoInvalid ==
  DoneNumeric /\ result.ok =>
    LET empties == find_empty_values(json_str, preserve_order).result.data
    IN  \A n \in 1..Len(empties) :
          empties[n].key \in numeric_columns =>
            InvalidNumericResult(
              empties[n].index, empties[n].key,
              IF ValueAt(empties[n].index + 1, empties[n].key) = WNull
                THEN <<"n", "u", "l", "l">> ELSE <<>>) \in Findings

\* Both keys numeric, two nulls and two empty strings: four findings.
C10_Witness ==
  /\ DoneNumeric
  /\ json_str = Text(DocTwoByTwo)
  /\ numeric_columns = Keys
  /\ preserve_order
  /\ result =
       Ok(<<InvalidNumericResult(0, KeyLower, <<"n", "u", "l", "l">>),
            InvalidNumericResult(0, KeyUpper, <<>>),
            InvalidNumericResult(1, KeyUpper, <<"n", "u", "l", "l">>),
            InvalidNumericResult(1, KeyLower, <<>>)>>)

====
